---- MODULE Spec2Model ----
(***************************************************************************)
(* A model of guscorp's audio comparator, lessons/audio_compare.py.        *)
(*                                                                         *)
(* compare_audio is modelled step by step for a set of calls that share    *)
(* the working directory (the temporary WAV files have fixed names).       *)
(*                                                                         *)
(* Numbers.  A float x is held as the integer x * Scale, truncated         *)
(* (fixed point, three decimals).  NaN is the value NaN; it is only ever   *)
(* held where the defined values are non-negative (a frequency, a score,   *)
(* a detail metric).  Values below the resolution (the 1e-6 and 1e-8       *)
(* epsilons) are visible only where they turn a zero into a non-zero.      *)
(*                                                                         *)
(* Audio.  A decoded signal is the sequence of its analysis frames; a      *)
(* frame is what librosa.pyin and librosa.feature.chroma_stft find in it:  *)
(* a fundamental frequency in Hz (NaN when unvoiced) and the energy per    *)
(* pitch class.  Two pitch classes stand for the twelve.                   *)
(***************************************************************************)
EXTENDS Integers, Sequences, FiniteSets, TLC

\* ---------------------------------------------------------------- bounds

\* The longest decoded signal, in analysis frames.
MaxFrames == 2

\* ------------------------------------------------------------ fixed point

Scale == 10^3

NaN == 0 - 1

Inf == 10^9

IsNaN(x) == x = NaN

Abs(x) == IF x < 0 THEN 0 - x ELSE x

Min2(a, b) == IF a < b THEN a ELSE b

Max2(a, b) == IF a > b THEN a ELSE b

\* np.clip(x, lo, hi)
Clip(x, lo, hi) == Max2(lo, Min2(x, hi))

\* a * b and a / b of two fixed-point numbers
FMul(a, b) == (a * b) \div Scale

FDiv(a, b) == (a * Scale) \div b

RECURSIVE SumSeq(_)
\* np.sum of a vector
SumSeq(s) == IF s = <<>> THEN 0 ELSE Head(s) + SumSeq(Tail(s))

RECURSIVE MaxSeq(_)
\* np.max of a non-empty vector
MaxSeq(s) == IF Len(s) = 1 THEN s[1] ELSE Max2(Head(s), MaxSeq(Tail(s)))

\* np.mean of a vector: NaN (with a RuntimeWarning, no exception) when empty
Mean(s) == IF s = <<>> THEN NaN ELSE SumSeq(s) \div Len(s)

RECURSIVE SqrtBetween(_, _, _)
\* the largest r in lo..hi with r * r <= x, by bisection
SqrtBetween(x, lo, hi) ==
    IF lo >= hi THEN lo
    ELSE LET mid == (lo + hi + 1) \div 2
         IN IF mid * mid <= x THEN SqrtBetween(x, mid, hi)
            ELSE SqrtBetween(x, lo, mid - 1)

\* np.sqrt of an integer, truncated
ISqrt(x) == SqrtBetween(x, 0, 46340)

\* np.sqrt(np.sum(v * v)) and np.linalg.norm(v) of a fixed-point vector
Norm(v) == ISqrt(SumSeq([k \in 1..Len(v) |-> v[k] * v[k]]))

RECURSIVE ExpTerms(_, _, _)
\* the Taylor series of e^x from the k-th term on, x >= 0 in fixed point
ExpTerms(x, term, k) ==
    IF term = 0 THEN 0
    ELSE term + ExpTerms(x, (term * x) \div (Scale * k), k + 1)

\* np.exp(-x) for x >= 0; NaN for NaN
ExpNeg(x) == IF IsNaN(x) THEN NaN ELSE (Scale * Scale) \div ExpTerms(x, Scale, 1)

\* ------------------------------------------------------ feature extraction

\* librosa's analysis hop, in samples, and the fixed sample rate of line 62
HopLength == 512

SampleRate == 22050

\* librosa.frames_to_time(i, sr=sr) and librosa.times_like: frame i starts at
\* i * HopLength / SampleRate seconds
FramesToTime(i) == (i * HopLength * Scale) \div SampleRate

\* f0 of librosa.pyin: one entry per frame, NaN where the frame is unvoiced
Pyin(y) == [k \in 1..Len(y) |-> y[k].f0]

\* chroma + eps: 1e-6 is below the resolution and changes only a zero
AddEps(x) == IF x = 0 THEN 1 ELSE x

\* one column of normalize_chroma: (chroma + eps) / sqrt(sum((chroma + eps)^2)),
\* each entry computed as sqrt(c^2 / sum) to keep three decimals
\* A NaN in the column makes the norm NaN, and with it every entry.
NormalizeColumn(raw) ==
    LET c == [k \in 1..Len(raw) |-> AddEps(raw[k])]
        sumsq == SumSeq([k \in 1..Len(c) |-> c[k] * c[k]])
    IN IF \E k \in 1..Len(raw) : IsNaN(raw[k]) THEN [k \in 1..Len(raw) |-> NaN]
       ELSE IF sumsq = 0 THEN c
       ELSE [k \in 1..Len(c) |-> ISqrt(((c[k] * c[k] * Scale) \div sumsq) * Scale)]

\* normalize_chroma(y, sr): the matrix as the sequence of its columns
normalize_chroma(y) == [k \in 1..Len(y) |-> NormalizeColumn(y[k].chroma)]

\* ----------------------------------------------------------------- aligner

\* X_norm + eps: 1e-8 is below the resolution and changes only a zero
AddEpsNorm(x) == IF x = 0 THEN 1 ELSE x

\* one entry of a cosine_distance_matrix without the np.clip of line 183
CosineDistanceUnclipped(x, y) ==
    LET xn == AddEpsNorm(Norm(x))
        yn == AddEpsNorm(Norm(y))
        xu == [k \in 1..Len(x) |-> FDiv(x[k], xn)]
        yu == [k \in 1..Len(y) |-> FDiv(y[k], yn)]
        dot == SumSeq([k \in 1..Len(x) |-> FMul(xu[k], yu[k])])
    IN Scale - FDiv(dot, Max2(FMul(xn, yn), 1))

\* one entry of cosine_distance_matrix: the columns are divided by their
\* norms and the dot product is divided by the product of the norms again.
\* A NaN in either column goes through the norm, np.dot and np.clip
CosineDistance(x, y) ==
    LET xn == AddEpsNorm(Norm(x))
        yn == AddEpsNorm(Norm(y))
        xu == [k \in 1..Len(x) |-> FDiv(x[k], xn)]
        yu == [k \in 1..Len(y) |-> FDiv(y[k], yn)]
        dot == SumSeq([k \in 1..Len(x) |-> FMul(xu[k], yu[k])])
        similarity == FDiv(dot, Max2(FMul(xn, yn), 1))
    IN IF (\E k \in 1..Len(x) : IsNaN(x[k])) \/ (\E k \in 1..Len(y) : IsNaN(y[k]))
       THEN NaN
       ELSE Scale - Clip(similarity, 0 - Scale, Scale)

\* cosine_distance_matrix(X, Y): C[i+1][j+1] is the cost of teacher frame i
\* against student frame j
cosine_distance_matrix(X, Y) ==
    [i \in 1..Len(X) |-> [j \in 1..Len(Y) |-> CosineDistance(X[i], Y[j])]]

\* a dtw that tries the one-sided steps before the diagonal one
StepSizesSigmaDiagonalLast == << <<0, 1>>, <<1, 0>>, <<1, 1>> >>

\* a dtw that tries the teacher-only step before the student-only step
StepSizesSigmaTeacherFirst == << <<1, 1>>, <<1, 0>>, <<0, 1>> >>

\* librosa.sequence.dtw's default step_sizes_sigma, in the order it tries them
StepSizesSigma == << <<1, 1>>, <<0, 1>>, <<1, 0>> >>

RECURSIVE AccumulatedCost(_, _, _)
RECURSIVE BestStepFrom(_, _, _, _, _)
\* dtw's inner loop over the steps from the k-th on, for cell (i, j): a step
\* replaces the best so far only when its cost is strictly smaller.
\* best = <<cost, step index>>
BestStepFrom(cost, i, j, k, best) ==
    IF k > Len(StepSizesSigma) THEN best
    ELSE LET pi == i - StepSizesSigma[k][1]
             pj == j - StepSizesSigma[k][2]
             cur == IF pi < 0 \/ pj < 0 THEN Inf
                    ELSE AccumulatedCost(cost, pi, pj) + cost[i + 1][j + 1]
         IN BestStepFrom(cost, i, j, k + 1,
                         IF cur < best[1] THEN <<cur, k>> ELSE best)

\* a dtw cell that keeps the costliest of the steps it can take, the first
\* of them on a tie
DtwCellCostliest(cost, i, j) ==
    IF i = 0 /\ j = 0 THEN <<cost[1][1], 1>>
    ELSE LET feasible == { k \in 1..Len(StepSizesSigma) :
                             i >= StepSizesSigma[k][1] /\ j >= StepSizesSigma[k][2] }
             through(k) == AccumulatedCost(cost, i - StepSizesSigma[k][1],
                                           j - StepSizesSigma[k][2])
                           + cost[i + 1][j + 1]
             worst == CHOOSE k \in feasible :
                          \A l \in feasible :
                              through(k) > through(l) \/ (through(k) = through(l) /\ k <= l)
         IN <<through(worst), worst>>

\* <<D[i, j], steps[i, j]>> of dtw for cell (i, j), 0-based
DtwCell(cost, i, j) ==
    IF i = 0 /\ j = 0 THEN <<cost[1][1], 1>>
    ELSE BestStepFrom(cost, i, j, 1, <<Inf, 1>>)

\* D[i, j]: the accumulated cost matrix of dtw
AccumulatedCost(cost, i, j) == DtwCell(cost, i, j)[1]

RECURSIVE Backtrack(_, _, _)
\* __dtw_backtracking: from (i, j) back to (0, 0), each cell appended as it
\* is visited
Backtrack(cost, i, j) ==
    IF i = 0 /\ j = 0 THEN << <<0, 0>> >>
    ELSE LET s == StepSizesSigma[DtwCell(cost, i, j)[2]]
         IN << <<i, j>> >> \o Backtrack(cost, i - s[1], j - s[2])

\* a dtw whose backtracking stops on reaching (0, 0) without appending it
DtwWithoutOrigin(cost) ==
    LET path == Backtrack(cost, Len(cost) - 1, Len(cost[1]) - 1)
    IN SubSeq(path, 1, Len(path) - 1)

\* wp of librosa.sequence.dtw(C=C): the path as the backtracking visits it,
\* that is from the last cell (N-1, M-1) to the first (0, 0)
Dtw(cost) == Backtrack(cost, Len(cost) - 1, Len(cost[1]) - 1)

\* ------------------------------------------------------------------ scorer

RECURSIVE ArgMinFrom(_, _, _)
\* np.argmin of a non-empty vector from index k on: the first smallest entry
ArgMinFrom(v, k, best) ==
    IF k > Len(v) THEN best
    ELSE ArgMinFrom(v, k + 1, IF v[k] < v[best] THEN k ELSE best)

\* pitch_at_time(f0_array, time_array, t): the pitch of the frame whose time
\* is nearest to t; time_array is librosa.times_like(f0_array)
pitch_at_time(f0_array, t) ==
    LET time_array == [k \in 1..Len(f0_array) |-> FramesToTime(k - 1)]
        idx == ArgMinFrom([k \in 1..Len(f0_array) |-> Abs(time_array[k] - t)], 1, 1)
    IN f0_array[idx]

\* the resolutions of the base-2 logarithm: its argument is held to four
\* decimals and its fraction to LogBits binary digits
LogScale == 10^4

LogBits == 6

RECURSIVE Log2Whole(_, _)
\* the whole part of log2(num / den)
Log2Whole(num, den) ==
    IF num >= 2 * den THEN 1 + Log2Whole(num, 2 * den)
    ELSE IF num < den THEN Log2Whole(2 * num, den) - 1
    ELSE 0

RECURSIVE Log2Mantissa(_, _)
\* num / den brought into [1, 2), in units of 1 / LogScale
Log2Mantissa(num, den) ==
    IF num >= 2 * den THEN Log2Mantissa(num, 2 * den)
    ELSE IF num < den THEN Log2Mantissa(2 * num, den)
    ELSE (num * LogScale) \div den

RECURSIVE Log2Frac(_, _)
\* the fraction of log2(y / LogScale) for y in [1, 2), in units of
\* 1 / 2^LogBits, one binary digit per squaring; w is the next digit's weight
Log2Frac(y, w) ==
    IF w = 0 THEN 0
    ELSE LET y2 == (y * y) \div LogScale
         IN IF y2 >= 2 * LogScale THEN w + Log2Frac(y2 \div 2, w \div 2)
            ELSE Log2Frac(y2, w \div 2)

\* the pitch that hz_to_cents anchors at CentsA4 cents, and cents per octave
A4 == 440

CentsA4 == 6900

CentsPerOctave == 1200

\* hz_to_cents(freq) = 1200.0 * np.log2(freq / 440.0) + 6900
hz_to_cents(freq) ==
    CentsPerOctave * Scale * Log2Whole(freq, A4)
    + (CentsPerOctave * Scale * Log2Frac(Log2Mantissa(freq, A4), 2^(LogBits - 1)))
        \div 2^LogBits
    + CentsA4 * Scale

RECURSIVE PitchDiffsTeacherMinusStudent(_, _, _, _)
\* the loop with the subtraction the other way round: cents_t - cents_s
PitchDiffsTeacherMinusStudent(wp, k, f0_teacher, f0_student) ==
    IF k > Len(wp) THEN <<>>
    ELSE LET pitch_t == pitch_at_time(f0_teacher, FramesToTime(wp[k][1]))
             pitch_s == pitch_at_time(f0_student, FramesToTime(wp[k][2]))
             rest == PitchDiffsTeacherMinusStudent(wp, k + 1, f0_teacher, f0_student)
         IN IF IsNaN(pitch_t) \/ IsNaN(pitch_s) THEN rest
            ELSE <<hz_to_cents(pitch_t) - hz_to_cents(pitch_s)>> \o rest

RECURSIVE PitchDiffsFrom(_, _, _, _)
\* lines 218-244: the loop over wp from its k-th entry on. An entry with an
\* unvoiced pitch on either side is skipped, the others append
\* cents_s - cents_t
PitchDiffsFrom(wp, k, f0_teacher, f0_student) ==
    IF k > Len(wp) THEN <<>>
    ELSE LET pitch_t == pitch_at_time(f0_teacher, FramesToTime(wp[k][1]))
             pitch_s == pitch_at_time(f0_student, FramesToTime(wp[k][2]))
             rest == PitchDiffsFrom(wp, k + 1, f0_teacher, f0_student)
         IN IF IsNaN(pitch_t) \/ IsNaN(pitch_s) THEN rest
            ELSE <<hz_to_cents(pitch_s) - hz_to_cents(pitch_t)>> \o rest

\* lines 251-258: the Euclidean distance of the two chroma columns of each
\* entry of wp
ChromaDiffs(wp, chroma_teacher, chroma_student) ==
    [k \in 1..Len(wp) |->
        LET chroma_t == chroma_teacher[wp[k][1] + 1]
            chroma_s == chroma_student[wp[k][2] + 1]
        IN Norm([b \in 1..Len(chroma_t) |-> chroma_t[b] - chroma_s[b]])]

\* 1e-6 of the perfect-match and harmonic tests, at the model's resolution:
\* only zero is below it
PerfectTolerance == 1

\* the pitch error, in cents, at which a pair scores nothing (line 314)
MissCents == 100

\* the weights of lines 335-339, in thousandths
WeightPitch == 700

WeightTiming == 100

WeightHarmonic == 200

\* 100.0
Hundred == 100 * Scale

\* a perfect-match test written with np.any in place of np.all
AllBelowToleranceAny(v) == \E k \in 1..Len(v) : Abs(v[k]) < PerfectTolerance

\* np.all(np.abs(v) < 1e-6): true of the empty vector
AllBelowTolerance(v) == \A k \in 1..Len(v) : Abs(v[k]) < PerfectTolerance

\* pitch scores without the clip to [0, 1]
PitchScoresUnclipped(pitch_errors) ==
    [k \in 1..Len(pitch_errors) |-> (Scale - pitch_errors[k] \div MissCents) * 100]

\* lines 312-314: pitch_scores = np.clip(1 - pitch_errors / 100, 0, 1) * 100
PitchScores(pitch_errors) ==
    [k \in 1..Len(pitch_errors) |->
        Clip(Scale - pitch_errors[k] \div MissCents, 0, Scale) * 100]

\* lines 318-319: np.abs(np.diff(wp, axis=0) - 1), one row per step of wp,
\* one column per side
TimingDeviations(wp) ==
    [k \in 1..(Len(wp) - 1) |->
        [side \in 1..2 |-> Abs(wp[k + 1][side] - wp[k][side] - 1) * Scale]]

\* line 320-321: np.mean(np.exp(-timing_deviations.mean(axis=0)) * 100); the
\* means over no rows are NaN and so is the score
TimingScore(timing_deviations) ==
    LET column(side) == [k \in 1..Len(timing_deviations) |-> timing_deviations[k][side]]
        timing_scores == [side \in 1..2 |->
            LET e == ExpNeg(Mean(column(side)))
            IN IF IsNaN(e) THEN NaN ELSE e * 100]
    IN IF IsNaN(timing_scores[1]) \/ IsNaN(timing_scores[2]) THEN NaN
       ELSE Mean(timing_scores)

\* line 356: timing_deviations.mean() over both columns
TimingDeviationMean(timing_deviations) ==
    Mean([k \in 1..(2 * Len(timing_deviations)) |->
            timing_deviations[(k + 1) \div 2][2 - (k % 2)]])

\* a harmonic score normalised by the largest distance two unit vectors can
\* have, 2.0, instead of by the largest distance observed
HarmonicScoreFixedRange(chroma_diffs) ==
    IF \A k \in 1..Len(chroma_diffs) : chroma_diffs[k] < PerfectTolerance
    THEN Hundred
    ELSE Mean([k \in 1..Len(chroma_diffs) |->
            Clip(Scale - FDiv(chroma_diffs[k], 2 * Scale), 0, Scale) * 100])

\* lines 323-332
HarmonicScore(chroma_diffs) ==
    IF \A k \in 1..Len(chroma_diffs) : chroma_diffs[k] < PerfectTolerance
    THEN Hundred
    ELSE LET max_chroma_diff == MaxSeq(chroma_diffs)
         IN IF max_chroma_diff > 0
            THEN Mean([k \in 1..Len(chroma_diffs) |->
                    Clip(Scale - FDiv(chroma_diffs[k], max_chroma_diff), 0, Scale) * 100])
            ELSE Hundred

\* the weights the docstring of calculate_performance_score gives: 60, 20, 20
FinalScoreDocstringWeights(pitch_accuracy, timing_score, harmonic_score) ==
    IF IsNaN(pitch_accuracy) \/ IsNaN(timing_score) \/ IsNaN(harmonic_score)
    THEN NaN
    ELSE FMul(600, pitch_accuracy) + FMul(200, timing_score)
         + FMul(200, harmonic_score)

\* lines 341-345: the weighted sum; NaN as soon as one score is NaN
FinalScore(pitch_accuracy, timing_score, harmonic_score) ==
    IF IsNaN(pitch_accuracy) \/ IsNaN(timing_score) \/ IsNaN(harmonic_score)
    THEN NaN
    ELSE FMul(WeightPitch, pitch_accuracy) + FMul(WeightTiming, timing_score)
         + FMul(WeightHarmonic, harmonic_score)

\* the value of scores before compare_audio has computed it
NoScores ==
    [overall_score |-> NaN, pitch_accuracy |-> NaN, timing_accuracy |-> NaN,
     harmonic_accuracy |-> NaN,
     details |-> [mean_pitch_error_cents |-> NaN, max_pitch_error_cents |-> NaN,
                  timing_deviation |-> NaN, mean_chroma_distance |-> NaN]]

\* calculate_performance_score(pitch_diffs, chroma_diffs, wp): the dictionary
\* returned, or the exception raised (np.max of an empty pitch_errors,
\* line 355, raises ValueError)
calculate_performance_score(pitch_diffs, chroma_diffs, wp) ==
    IF AllBelowTolerance(pitch_diffs) /\ AllBelowTolerance(chroma_diffs)
    THEN [exception |-> "",
          scores |-> [overall_score |-> Hundred, pitch_accuracy |-> Hundred,
                      timing_accuracy |-> Hundred, harmonic_accuracy |-> Hundred,
                      details |-> [mean_pitch_error_cents |-> 0,
                                   max_pitch_error_cents |-> 0,
                                   timing_deviation |-> 0,
                                   mean_chroma_distance |-> 0]]]
    ELSE LET pitch_errors == [k \in 1..Len(pitch_diffs) |-> Abs(pitch_diffs[k])]
             pitch_accuracy == Mean(PitchScores(pitch_errors))
             timing_deviations == TimingDeviations(wp)
             timing_score == TimingScore(timing_deviations)
             harmonic_score == HarmonicScore(chroma_diffs)
             final_score == FinalScore(pitch_accuracy, timing_score, harmonic_score)
         IN IF pitch_errors = <<>>
            THEN [exception |-> "ValueError", scores |-> NoScores]
            ELSE [exception |-> "",
                  scores |-> [overall_score |-> final_score,
                              pitch_accuracy |-> pitch_accuracy,
                              timing_accuracy |-> timing_score,
                              harmonic_accuracy |-> harmonic_score,
                              details |-> [mean_pitch_error_cents |-> Mean(pitch_errors),
                                           max_pitch_error_cents |-> MaxSeq(pitch_errors),
                                           timing_deviation |->
                                               TimingDeviationMean(timing_deviations),
                                           mean_chroma_distance |-> Mean(chroma_diffs)]]]

\* ------------------------------------------------------------ compare_audio

\* The calls of compare_audio that may run at once, in one working directory.
NumCalls == 2

Calls == 1..NumCalls

\* The analysis frames a decoded signal is made of: A4, A5 (the same pitch
\* class an octave up, played softer), a pitch a little above A4 with another
\* chroma, a pitch more than a semitone above A4 with a third chroma, and two unvoiced
\* frames, one of them with the chroma of A4.
FrameKinds ==
    { [f0 |-> 440, chroma |-> <<600, 800>>],
      [f0 |-> 880, chroma |-> <<300, 400>>],
      [f0 |-> 450, chroma |-> <<800, 600>>],
      [f0 |-> 470, chroma |-> <<0, 1000>>],
      [f0 |-> NaN, chroma |-> <<1000, 0>>],
      [f0 |-> NaN, chroma |-> <<600, 800>>] }

\* What pyin and chroma_stft find in the one zero-padded frame of a signal
\* with no samples.
SilentFrame == [f0 |-> NaN, chroma |-> <<0, 0>>]

RECURSIVE SignalsOfLength(_)
SignalsOfLength(n) ==
    IF n = 0 THEN { <<>> }
    ELSE { Append(y, f) : y \in SignalsOfLength(n - 1), f \in FrameKinds }

\* The decoded signals of at most MaxFrames frames, the empty one included.
Signals == UNION { SignalsOfLength(n) : n \in 0..MaxFrames }

\* An input file: whether pydub can decode it, and the signal it decodes to.
Corrupt == [decodable |-> FALSE, frames |-> <<>>]

AudioFiles == { [decodable |-> TRUE, frames |-> y] : y \in Signals } \cup { Corrupt }

\* The files the concurrent calls are given: two recordings and a corrupt file.
Catalogue ==
    { [decodable |-> TRUE,
       frames |-> << [f0 |-> 440, chroma |-> <<600, 800>>],
                     [f0 |-> 450, chroma |-> <<800, 600>>] >>],
      [decodable |-> TRUE,
       frames |-> << [f0 |-> 880, chroma |-> <<300, 400>>] >>],
      Corrupt }

\* The fixed names of lines 54-55.
TeacherWav == "teacher_temp.wav"

StudentWav == "student_temp.wav"

TempNames == {TeacherWav, StudentWav}

NoFile == [exists |-> FALSE, data |-> <<>>]

VARIABLES
    pc,                 \* where each call is: the step it runs next, "idle", "returned" or "raised"
    error,              \* the exception a call ended with, "" when none
    teacher_audio_m4a,  \* the arguments of each call
    student_audio_m4a,
    fs,                 \* the temporary files of the working directory
    y_teacher,          \* the locals of each call
    y_student,
    f0_teacher,
    f0_student,
    chroma_teacher,
    chroma_student,
    C,                  \* the cost matrix, C[i+1][j+1] for teacher frame i and student frame j
    wp,
    pitch_diffs,
    chroma_diffs,
    scores,
    session,             \* the PracticeSession row of the database
    task_pc,             \* where each run of process_practice_session_file is
    practice_audio_path, \* the arguments of each run
    lesson_audio_path,
    practice_session,    \* the model instance each run holds in memory
    task_return,         \* the dictionary each run returns
    contacts,            \* the rows of Contact: pairs <<user, contact>>
    contact_requests,    \* the rows of ContactRequest, the row of primary key k at place k
    assignments,         \* the rows of LessonAssignment: pairs <<lesson, assigned_to>>
    assignment_requests, \* the rows of LessonAssignmentRequest, by primary key
    handlers             \* the HTTP requests being served: the view, its arguments and locals

\* the state of process_practice_session_file and of the database
task_vars == <<session, task_pc, practice_audio_path, lesson_audio_path,
               practice_session, task_return>>

\* the tables of the contacts app, those of lesson assignment, and the views
contact_db == <<contacts, contact_requests>>

lesson_db == <<assignments, assignment_requests>>

web_vars == <<contacts, contact_requests, assignments, assignment_requests, handlers>>

vars == <<pc, error, teacher_audio_m4a, student_audio_m4a, fs, y_teacher, y_student,
          f0_teacher, f0_student, chroma_teacher, chroma_student, C, wp, pitch_diffs,
          chroma_diffs, scores, session, task_pc, practice_audio_path,
          lesson_audio_path, practice_session, task_return, contacts,
          contact_requests, assignments, assignment_requests, handlers>>

\* The HTTP requests that may be served at once.
NumHandlers == 2

Handlers == 1..NumHandlers

\* no instance of ContactRequest in memory
NoRequest == [from_user |-> 0, to_user |-> 0, status |-> ""]

\* a worker that serves no request: no user, no primary key, no instance
IdleHandler == [pc |-> "idle", user |-> 0, pk |-> 0, inst |-> NoRequest]

\* empty tables, no request being served
InitWebIdle ==
    /\ contacts = {}
    /\ contact_requests = <<>>
    /\ assignments = {}
    /\ assignment_requests = <<>>
    /\ handlers = [h \in Handlers |-> IdleHandler]

\* A PracticeSession row: the name of its audio file, processing_status, and
\* processing_results held as <<>> for null and <<d>> for the dictionary d.
Row(audio, status, results) ==
    [audio |-> audio, processing_status |-> status, processing_results |-> results]

\* no model instance loaded yet
NoRow == Row("", "", <<>>)

\* nothing returned yet
NoReturn == [status |-> "", results |-> <<>>]

\* compare_audio called directly: no task runs, the row is as created
InitTaskIdle ==
    /\ session = Row("practice_audio/a.m4a", "pending", <<>>)
    /\ task_pc = [c \in Calls |-> "idle"]
    /\ practice_audio_path = [c \in Calls |-> ""]
    /\ lesson_audio_path = [c \in Calls |-> ""]
    /\ practice_session = [c \in Calls |-> NoRow]
    /\ task_return = [c \in Calls |-> NoReturn]

\* the locals of every call before it has run
InitLocals ==
    /\ error = [c \in Calls |-> ""]
    /\ fs = [n \in TempNames |-> NoFile]
    /\ y_teacher = [c \in Calls |-> <<>>]
    /\ y_student = [c \in Calls |-> <<>>]
    /\ f0_teacher = [c \in Calls |-> <<>>]
    /\ f0_student = [c \in Calls |-> <<>>]
    /\ chroma_teacher = [c \in Calls |-> <<>>]
    /\ chroma_student = [c \in Calls |-> <<>>]
    /\ C = [c \in Calls |-> <<>>]
    /\ wp = [c \in Calls |-> <<>>]
    /\ pitch_diffs = [c \in Calls |-> <<>>]
    /\ chroma_diffs = [c \in Calls |-> <<>>]
    /\ scores = [c \in Calls |-> NoScores]

\* One call of compare_audio, on any two input files.
Init ==
    /\ pc = [c \in Calls |-> IF c = 1 THEN "convert_teacher" ELSE "idle"]
    /\ \E t \in AudioFiles, s \in AudioFiles :
        /\ teacher_audio_m4a = [c \in Calls |-> IF c = 1 THEN t ELSE Corrupt]
        /\ student_audio_m4a = [c \in Calls |-> IF c = 1 THEN s ELSE Corrupt]
    /\ InitLocals
    /\ InitTaskIdle
    /\ InitWebIdle

\* Every call running, each on files of the catalogue.
InitConcurrent ==
    /\ pc = [c \in Calls |-> "convert_teacher"]
    /\ teacher_audio_m4a \in [Calls -> Catalogue]
    /\ student_audio_m4a \in [Calls -> Catalogue]
    /\ InitLocals
    /\ InitTaskIdle
    /\ InitWebIdle

\* an exception leaves compare_audio: nothing after the raising line runs
Raise(c, exception) ==
    /\ pc' = [pc EXCEPT ![c] = "raised"]
    /\ error' = [error EXCEPT ![c] = exception]

\* convert_m4a_to_wav(m4a, wav_path), lines 13-30: AudioSegment.from_file
\* raises on a file it cannot decode, else export writes wav_path
ConvertM4aToWav(c, m4a, wav_path, next) ==
    IF ~m4a.decodable
    THEN Raise(c, "CouldntDecodeError") /\ UNCHANGED fs
    ELSE /\ fs' = [fs EXCEPT ![wav_path] = [exists |-> TRUE, data |-> m4a.frames]]
         /\ pc' = [pc EXCEPT ![c] = next]
         /\ UNCHANGED error

\* line 54
ConvertTeacher(c) ==
    /\ pc[c] = "convert_teacher"
    /\ UNCHANGED task_vars
    /\ UNCHANGED web_vars
    /\ ConvertM4aToWav(c, teacher_audio_m4a[c], TeacherWav, "convert_student")
    /\ UNCHANGED <<teacher_audio_m4a, student_audio_m4a, y_teacher, y_student,
                   f0_teacher, f0_student, chroma_teacher, chroma_student, C, wp,
                   pitch_diffs, chroma_diffs, scores>>

\* line 55
ConvertStudent(c) ==
    /\ pc[c] = "convert_student"
    /\ UNCHANGED task_vars
    /\ UNCHANGED web_vars
    /\ ConvertM4aToWav(c, student_audio_m4a[c], StudentWav, "load_teacher")
    /\ UNCHANGED <<teacher_audio_m4a, student_audio_m4a, y_teacher, y_student,
                   f0_teacher, f0_student, chroma_teacher, chroma_student, C, wp,
                   pitch_diffs, chroma_diffs, scores>>

\* line 58: librosa.load reads the file of that name as it is now
LoadTeacher(c) ==
    /\ pc[c] = "load_teacher"
    /\ UNCHANGED task_vars
    /\ UNCHANGED web_vars
    /\ IF fs[TeacherWav].exists
       THEN /\ y_teacher' = [y_teacher EXCEPT ![c] = fs[TeacherWav].data]
            /\ pc' = [pc EXCEPT ![c] = "load_student"]
            /\ UNCHANGED error
       ELSE Raise(c, "FileNotFoundError") /\ UNCHANGED y_teacher
    /\ UNCHANGED <<teacher_audio_m4a, student_audio_m4a, fs, y_student,
                   f0_teacher, f0_student, chroma_teacher, chroma_student, C, wp,
                   pitch_diffs, chroma_diffs, scores>>

\* line 59
LoadStudent(c) ==
    /\ pc[c] = "load_student"
    /\ UNCHANGED task_vars
    /\ UNCHANGED web_vars
    /\ IF fs[StudentWav].exists
       THEN /\ y_student' = [y_student EXCEPT ![c] = fs[StudentWav].data]
            /\ pc' = [pc EXCEPT ![c] = "extract"]
            /\ UNCHANGED error
       ELSE Raise(c, "FileNotFoundError") /\ UNCHANGED y_student
    /\ UNCHANGED <<teacher_audio_m4a, student_audio_m4a, fs, y_teacher,
                   f0_teacher, f0_student, chroma_teacher, chroma_student, C, wp,
                   pitch_diffs, chroma_diffs, scores>>

\* What the librosa calls of lines 63-129 make of the loaded signals. A signal
\* with no samples is outside what they are defined for: they raise, or they
\* analyse the one frame their zero padding makes. Otherwise, the frames.
ExtractOutcomes(yt, ys) ==
    IF yt = <<>> \/ ys = <<>> THEN {"raise", "padded"} ELSE {"frames"}

\* the frames librosa analyses: centred frames are padded, so that a signal
\* with no samples gives one silent frame
Padded(y) == IF y = <<>> THEN <<SilentFrame>> ELSE y

\* the assertions compiled away, as under python -O: no matrix is looked at
AnyNaNStripped(m) == FALSE

\* np.any(np.isnan(m)) of a matrix held as a sequence of vectors
AnyNaN(m) == \E i \in 1..Len(m) : \E k \in 1..Len(m[i]) : IsNaN(m[i][k])

\* lines 61-133: resample, pyin, normalize_chroma and the two assertions
Extract(c) ==
    /\ pc[c] = "extract"
    /\ UNCHANGED task_vars
    /\ UNCHANGED web_vars
    /\ \E outcome \in ExtractOutcomes(y_teacher[c], y_student[c]) :
        IF outcome = "raise"
        THEN /\ Raise(c, "ParameterError")
             /\ UNCHANGED <<f0_teacher, f0_student, chroma_teacher, chroma_student>>
        ELSE /\ f0_teacher' = [f0_teacher EXCEPT ![c] = Pyin(Padded(y_teacher[c]))]
             /\ f0_student' = [f0_student EXCEPT ![c] = Pyin(Padded(y_student[c]))]
             /\ chroma_teacher' =
                    [chroma_teacher EXCEPT ![c] = normalize_chroma(Padded(y_teacher[c]))]
             /\ chroma_student' =
                    [chroma_student EXCEPT ![c] = normalize_chroma(Padded(y_student[c]))]
             /\ IF AnyNaN(chroma_teacher'[c]) \/ AnyNaN(chroma_student'[c])
                THEN Raise(c, "AssertionError")
                ELSE pc' = [pc EXCEPT ![c] = "align"] /\ UNCHANGED error
    /\ UNCHANGED <<teacher_audio_m4a, student_audio_m4a, fs, y_teacher, y_student,
                   C, wp, pitch_diffs, chroma_diffs, scores>>

\* a matrix with no row or no column: np.dot of lines 173-185 builds it
\* without complaint from a feature matrix of no columns
NoCells(m) == m = <<>> \/ m[1] = <<>>

\* lines 188-194: the cost matrix, its assertion, and DTW. Nothing between
\* line 127 and line 194 looks at the number of columns, so a cost matrix
\* with no cells reaches librosa.sequence.dtw, which fails on reading C[0, 0]
Align(c) ==
    /\ pc[c] = "align"
    /\ UNCHANGED task_vars
    /\ UNCHANGED web_vars
    /\ C' = [C EXCEPT ![c] = cosine_distance_matrix(chroma_teacher[c], chroma_student[c])]
    /\ IF AnyNaN(C'[c])
       THEN Raise(c, "AssertionError") /\ UNCHANGED wp
       ELSE IF NoCells(C'[c])
       THEN Raise(c, "IndexError") /\ UNCHANGED wp
       ELSE /\ wp' = [wp EXCEPT ![c] = Dtw(C'[c])]
            /\ pc' = [pc EXCEPT ![c] = "score"]
            /\ UNCHANGED error
    /\ UNCHANGED <<teacher_audio_m4a, student_audio_m4a, fs, y_teacher, y_student,
                   f0_teacher, f0_student, chroma_teacher, chroma_student,
                   pitch_diffs, chroma_diffs, scores>>

\* lines 218-364: the pitch differences and the chroma distances along wp,
\* then calculate_performance_score
Score(c) ==
    /\ pc[c] = "score"
    /\ UNCHANGED task_vars
    /\ UNCHANGED web_vars
    /\ pitch_diffs' =
           [pitch_diffs EXCEPT ![c] = PitchDiffsFrom(wp[c], 1, f0_teacher[c], f0_student[c])]
    /\ chroma_diffs' =
           [chroma_diffs EXCEPT ![c] = ChromaDiffs(wp[c], chroma_teacher[c], chroma_student[c])]
    /\ LET result == calculate_performance_score(pitch_diffs'[c], chroma_diffs'[c], wp[c])
       IN IF result.exception # ""
          THEN Raise(c, result.exception) /\ UNCHANGED scores
          ELSE /\ scores' = [scores EXCEPT ![c] = result.scores]
               /\ pc' = [pc EXCEPT ![c] = "save_results"]
               /\ UNCHANGED error
    /\ UNCHANGED <<teacher_audio_m4a, student_audio_m4a, fs, y_teacher, y_student,
                   f0_teacher, f0_student, chroma_teacher, chroma_student, C, wp>>

\* lines 366-480: the printed analysis, the results directory, the plots and
\* the text file; none of it is read again by the comparison
SaveResults(c) ==
    /\ pc[c] = "save_results"
    /\ UNCHANGED task_vars
    /\ UNCHANGED web_vars
    /\ pc' = [pc EXCEPT ![c] = "remove_teacher"]
    /\ UNCHANGED <<error, teacher_audio_m4a, student_audio_m4a, fs, y_teacher,
                   y_student, f0_teacher, f0_student, chroma_teacher, chroma_student,
                   C, wp, pitch_diffs, chroma_diffs, scores>>

\* os.remove(path): raises FileNotFoundError when no file has that name
OsRemove(c, path, next) ==
    IF fs[path].exists
    THEN /\ fs' = [fs EXCEPT ![path] = NoFile]
         /\ pc' = [pc EXCEPT ![c] = next]
         /\ UNCHANGED error
    ELSE Raise(c, "FileNotFoundError") /\ UNCHANGED fs

\* line 483
RemoveTeacher(c) ==
    /\ pc[c] = "remove_teacher"
    /\ UNCHANGED task_vars
    /\ UNCHANGED web_vars
    /\ OsRemove(c, TeacherWav, "remove_student")
    /\ UNCHANGED <<teacher_audio_m4a, student_audio_m4a, y_teacher, y_student,
                   f0_teacher, f0_student, chroma_teacher, chroma_student, C, wp,
                   pitch_diffs, chroma_diffs, scores>>

\* lines 484-488: the second removal, then the scores are returned
RemoveStudent(c) ==
    /\ pc[c] = "remove_student"
    /\ UNCHANGED task_vars
    /\ UNCHANGED web_vars
    /\ OsRemove(c, StudentWav, "returned")
    /\ UNCHANGED <<teacher_audio_m4a, student_audio_m4a, y_teacher, y_student,
                   f0_teacher, f0_student, chroma_teacher, chroma_student, C, wp,
                   pitch_diffs, chroma_diffs, scores>>

Next ==
    \E c \in Calls :
        \/ ConvertTeacher(c)
        \/ ConvertStudent(c)
        \/ LoadTeacher(c)
        \/ LoadStudent(c)
        \/ Extract(c)
        \/ Align(c)
        \/ Score(c)
        \/ SaveResults(c)
        \/ RemoveTeacher(c)
        \/ RemoveStudent(c)

\* one call of compare_audio on any two input files
Spec == Init /\ [][Next]_vars

\* NumCalls calls of compare_audio at once, in one working directory
SpecConcurrent == InitConcurrent /\ [][Next]_vars

\* The frames of the alignment stage's inputs: two voiced frames and an
\* unvoiced one, of three chroma columns at cosine distances 0.2, 0.4 and 1.
AlignFrameKinds ==
    { [f0 |-> 440, chroma |-> <<600, 800>>],
      [f0 |-> 470, chroma |-> <<0, 1000>>],
      [f0 |-> NaN, chroma |-> <<1000, 0>>] }

\* The longest feature matrix handed to the alignment stage.
MaxAlignFrames == 3

\* The frame sequences behind the feature matrices of the alignment stage,
\* the one of no frames included.
AlignSignals == UNION { [1..n -> AlignFrameKinds] : n \in 0..MaxAlignFrames }

\* Line 188 reached by one call: its pitch tracks and chroma matrices are
\* those of any two frame sequences, the stages before it are done.
InitAlign ==
    /\ pc = [c \in Calls |-> IF c = 1 THEN "align" ELSE "idle"]
    /\ \E yt \in AlignSignals, ys \in AlignSignals :
        /\ teacher_audio_m4a =
               [c \in Calls |-> IF c = 1 THEN [decodable |-> TRUE, frames |-> yt] ELSE Corrupt]
        /\ student_audio_m4a =
               [c \in Calls |-> IF c = 1 THEN [decodable |-> TRUE, frames |-> ys] ELSE Corrupt]
        /\ y_teacher = [c \in Calls |-> IF c = 1 THEN yt ELSE <<>>]
        /\ y_student = [c \in Calls |-> IF c = 1 THEN ys ELSE <<>>]
        /\ f0_teacher = [c \in Calls |-> IF c = 1 THEN Pyin(yt) ELSE <<>>]
        /\ f0_student = [c \in Calls |-> IF c = 1 THEN Pyin(ys) ELSE <<>>]
        /\ chroma_teacher = [c \in Calls |-> IF c = 1 THEN normalize_chroma(yt) ELSE <<>>]
        /\ chroma_student = [c \in Calls |-> IF c = 1 THEN normalize_chroma(ys) ELSE <<>>]
        /\ fs = [n \in TempNames |->
                   [exists |-> TRUE, data |-> IF n = TeacherWav THEN yt ELSE ys]]
    /\ error = [c \in Calls |-> ""]
    /\ C = [c \in Calls |-> <<>>]
    /\ wp = [c \in Calls |-> <<>>]
    /\ pitch_diffs = [c \in Calls |-> <<>>]
    /\ chroma_diffs = [c \in Calls |-> <<>>]
    /\ scores = [c \in Calls |-> NoScores]
    /\ InitTaskIdle
    /\ InitWebIdle

\* the alignment stage and the scoring stage of a call
NextAlign == \E c \in Calls : Align(c) \/ Score(c)

\* lines 188-364 of one call, on the features of any two frame sequences
SpecAlign == InitAlign /\ [][NextAlign]_vars

\* ------------------------------------------- process_practice_session_file

\* The names a PracticeSession's audio file may have.
PracticePaths == {"practice_audio/a.m4a", "practice_audio/b.m4a"}

\* The lesson_audio_path a run may be given: None, the name of a file that is
\* not in the storage, and the name of one that is.
LessonPaths == {"", "lesson_audio/gone.m4a", "lesson_audio/lesson.m4a"}

\* os.path.exists(lesson_audio_abs)
Exists(path) == path = "lesson_audio/lesson.m4a"

\* The recordings behind the two paths: those of the catalogue, a recording
\* of one unvoiced frame, and one that decodes to no samples.
TaskFiles ==
    Catalogue \cup
    { [decodable |-> TRUE, frames |-> << [f0 |-> NaN, chroma |-> <<1000, 0>>] >>],
      [decodable |-> TRUE, frames |-> <<>>] }

\* The results an earlier run has stored in a session that is processed again.
OldResults ==
    [overall_score |-> 42 * Scale, pitch_accuracy |-> 42 * Scale,
     timing_accuracy |-> 42 * Scale, harmonic_accuracy |-> 42 * Scale,
     details |-> [mean_pitch_error_cents |-> 58 * Scale,
                  max_pitch_error_cents |-> 58 * Scale,
                  timing_deviation |-> Scale,
                  mean_chroma_distance |-> Scale]]

\* convert_numpy_to_python(obj), lines 12-26: the dictionary rebuilt key by
\* key, each numpy number as the Python number of the same value
convert_numpy_to_python(obj) ==
    [overall_score |-> obj.overall_score,
     pitch_accuracy |-> obj.pitch_accuracy,
     timing_accuracy |-> obj.timing_accuracy,
     harmonic_accuracy |-> obj.harmonic_accuracy,
     details |-> [mean_pitch_error_cents |-> obj.details.mean_pitch_error_cents,
                  max_pitch_error_cents |-> obj.details.max_pitch_error_cents,
                  timing_deviation |-> obj.details.timing_deviation,
                  mean_chroma_distance |-> obj.details.mean_chroma_distance]]

\* lines 61-68: the dictionary stored in processing_results (the name of the
\* results directory is left out)
ProcessingResults(results) ==
    [overall_score |-> results.overall_score,
     pitch_accuracy |-> results.pitch_accuracy,
     timing_accuracy |-> results.timing_accuracy,
     harmonic_accuracy |-> results.harmonic_accuracy,
     details |-> results.details]

\* an except clause that logs and returns without touching the row
MarkFailedForgotten(row) == row

\* lines 96-98 and 106-108: practice_session.processing_status = 'failed'
MarkFailed(row) == [row EXCEPT !.processing_status = "failed"]

\* the results stored while the status is left as it was
MarkCompletedStatusForgotten(row, processing_results) ==
    [row EXCEPT !.processing_results = <<processing_results>>]

\* lines 73-74: practice_session.processing_status = 'completed' and
\* practice_session.processing_results = processing_results
MarkCompleted(row, processing_results) ==
    [row EXCEPT !.processing_status = "completed",
                !.processing_results = <<processing_results>>]

\* One run of the task, for a session that is new or was processed before;
\* its comparison is call 1 of compare_audio, not yet started.
InitTask ==
    /\ pc = [c \in Calls |-> "idle"]
    /\ \E t \in TaskFiles, s \in TaskFiles :
        /\ teacher_audio_m4a = [c \in Calls |-> IF c = 1 THEN t ELSE Corrupt]
        /\ student_audio_m4a = [c \in Calls |-> IF c = 1 THEN s ELSE Corrupt]
    /\ InitLocals
    /\ \E audio \in PracticePaths :
        \/ session = Row(audio, "pending", <<>>)
        \/ session = Row(audio, "completed", <<OldResults>>)
    /\ task_pc = [c \in Calls |-> IF c = 1 THEN "get" ELSE "idle"]
    /\ \E p \in PracticePaths : practice_audio_path = [c \in Calls |-> IF c = 1 THEN p ELSE ""]
    /\ \E l \in LessonPaths : lesson_audio_path = [c \in Calls |-> IF c = 1 THEN l ELSE ""]
    /\ practice_session = [c \in Calls |-> NoRow]
    /\ task_return = [c \in Calls |-> NoReturn]
    /\ InitWebIdle

\* The recordings of the task and one whose second frame has a chroma column
\* of NaN.
NaNFiles ==
    TaskFiles \cup
    { [decodable |-> TRUE,
       frames |-> << [f0 |-> 440, chroma |-> <<600, 800>>],
                     [f0 |-> NaN, chroma |-> <<NaN, NaN>>] >>] }

\* One call of compare_audio, on any two of these recordings.
InitNaN ==
    /\ pc = [c \in Calls |-> IF c = 1 THEN "convert_teacher" ELSE "idle"]
    /\ \E t \in NaNFiles, s \in NaNFiles :
        /\ teacher_audio_m4a = [c \in Calls |-> IF c = 1 THEN t ELSE Corrupt]
        /\ student_audio_m4a = [c \in Calls |-> IF c = 1 THEN s ELSE Corrupt]
    /\ InitLocals
    /\ InitTaskIdle
    /\ InitWebIdle

\* one call of compare_audio where chroma_stft may return NaN
SpecNaN == InitNaN /\ [][Next]_vars

\* the variables of compare_audio
compare_vars ==
    <<pc, error, teacher_audio_m4a, student_audio_m4a, fs, y_teacher, y_student,
      f0_teacher, f0_student, chroma_teacher, chroma_student, C, wp, pitch_diffs,
      chroma_diffs, scores>>

\* line 39: PracticeSession.objects.get(audio=practice_audio_path); lines
\* 88-93 when no row has that audio
TaskGet(c) ==
    /\ task_pc[c] = "get"
    /\ UNCHANGED web_vars
    /\ IF session.audio = practice_audio_path[c]
       THEN /\ practice_session' = [practice_session EXCEPT ![c] = session]
            /\ task_pc' = [task_pc EXCEPT ![c] = "mark_processing"]
            /\ UNCHANGED task_return
       ELSE /\ task_return' = [task_return EXCEPT ![c] = [status |-> "error", results |-> <<>>]]
            /\ task_pc' = [task_pc EXCEPT ![c] = "done"]
            /\ UNCHANGED practice_session
    /\ UNCHANGED <<session, practice_audio_path, lesson_audio_path>>
    /\ UNCHANGED compare_vars

\* lines 43-44: save() writes every field of the instance to the row
TaskMarkProcessing(c) ==
    /\ task_pc[c] = "mark_processing"
    /\ UNCHANGED web_vars
    /\ practice_session' =
           [practice_session EXCEPT ![c] = [@ EXCEPT !.processing_status = "processing"]]
    /\ session' = practice_session'[c]
    /\ task_pc' = [task_pc EXCEPT ![c] = "check_lesson"]
    /\ UNCHANGED <<practice_audio_path, lesson_audio_path, task_return>>
    /\ UNCHANGED compare_vars

\* the except clauses of lines 94-113, entered with practice_session bound:
\* the status is set, the instance saved and the error dictionary returned
ExceptClause(c) ==
    /\ practice_session' = [practice_session EXCEPT ![c] = MarkFailed(@)]
    /\ session' = practice_session'[c]
    /\ task_return' = [task_return EXCEPT ![c] = [status |-> "error", results |-> <<>>]]
    /\ task_pc' = [task_pc EXCEPT ![c] = "done"]

\* lines 47-54: the lesson's file is looked for, then compare_audio is called
TaskCheckLesson(c) ==
    /\ task_pc[c] = "check_lesson"
    /\ UNCHANGED web_vars
    /\ IF lesson_audio_path[c] = "" \/ ~Exists(lesson_audio_path[c])
       THEN ExceptClause(c) /\ UNCHANGED pc
       ELSE /\ pc' = [pc EXCEPT ![c] = "convert_teacher"]
            /\ task_pc' = [task_pc EXCEPT ![c] = "compare"]
            /\ UNCHANGED <<session, practice_session, task_return>>
    /\ UNCHANGED <<practice_audio_path, lesson_audio_path>>
    /\ UNCHANGED <<error, teacher_audio_m4a, student_audio_m4a, fs, y_teacher, y_student,
                   f0_teacher, f0_student, chroma_teacher, chroma_student, C, wp,
                   pitch_diffs, chroma_diffs, scores>>

\* line 54 raises: whatever compare_audio raised is caught by line 94 or
\* line 103
TaskCompareRaised(c) ==
    /\ task_pc[c] = "compare"
    /\ UNCHANGED web_vars
    /\ pc[c] = "raised"
    /\ ExceptClause(c)
    /\ UNCHANGED <<practice_audio_path, lesson_audio_path>>
    /\ UNCHANGED compare_vars

\* lines 54-75: compare_audio returns, its results are converted and stored
TaskCompareReturned(c) ==
    /\ task_pc[c] = "compare"
    /\ UNCHANGED web_vars
    /\ pc[c] = "returned"
    /\ LET results == convert_numpy_to_python(scores[c])
       IN /\ practice_session' =
                 [practice_session EXCEPT ![c] = MarkCompleted(@, ProcessingResults(results))]
          /\ task_return' = [task_return EXCEPT ![c] = [status |-> "", results |-> <<results>>]]
    /\ session' = practice_session'[c]
    /\ task_pc' = [task_pc EXCEPT ![c] = "refresh"]
    /\ UNCHANGED <<practice_audio_path, lesson_audio_path>>
    /\ UNCHANGED compare_vars

\* lines 78-87: refresh_from_db, then the success dictionary is returned
TaskRefresh(c) ==
    /\ task_pc[c] = "refresh"
    /\ UNCHANGED web_vars
    /\ practice_session' = [practice_session EXCEPT ![c] = session]
    /\ task_return' = [task_return EXCEPT ![c] = [@ EXCEPT !.status = "success"]]
    /\ task_pc' = [task_pc EXCEPT ![c] = "done"]
    /\ UNCHANGED <<session, practice_audio_path, lesson_audio_path>>
    /\ UNCHANGED compare_vars

NextTask ==
    \E c \in Calls :
        \/ TaskGet(c)
        \/ TaskMarkProcessing(c)
        \/ TaskCheckLesson(c)
        \/ TaskCompareRaised(c)
        \/ TaskCompareReturned(c)
        \/ TaskRefresh(c)
        \/ ConvertTeacher(c)
        \/ ConvertStudent(c)
        \/ LoadTeacher(c)
        \/ LoadStudent(c)
        \/ Extract(c)
        \/ Align(c)
        \/ Score(c)
        \/ SaveResults(c)
        \/ RemoveTeacher(c)
        \/ RemoveStudent(c)

\* one run of process_practice_session_file and the comparison it calls
SpecTask == InitTask /\ [][NextTask]_vars

\* the worker runs the task it has taken until the task returns
SpecTaskFair == SpecTask /\ WF_vars(NextTask)

\* ------------------------------------------------------------------ claims

\* calculate_performance_score has returned its dictionary to call c
Scored(c) == pc[c] \in {"save_results", "remove_teacher", "remove_student", "returned"}

\* the four scores of call c
FourScores(c) ==
    {scores[c].overall_score, scores[c].pitch_accuracy,
     scores[c].timing_accuracy, scores[c].harmonic_accuracy}

\* call c compares a recording of at least one frame with an exact copy of it
ExactCopy(c) ==
    /\ pc[c] # "idle"
    /\ teacher_audio_m4a[c] = student_audio_m4a[c]
    /\ teacher_audio_m4a[c].decodable
    /\ teacher_audio_m4a[c].frames # <<>>

\* the perfect-match test of line 298 holds of call c's differences
ShortCircuit(c) ==
    /\ \A k \in 1..Len(pitch_diffs[c]) : Abs(pitch_diffs[c][k]) < PerfectTolerance
    /\ \A k \in 1..Len(chroma_diffs[c]) : chroma_diffs[c][k] < PerfectTolerance

\* C1: a recording compared with an exact copy of itself is scored, never
\* fails, and its overall_score, pitch_accuracy, timing_accuracy and
\* harmonic_accuracy are all exactly 100.0, on the path DTW picks.
C1_ExactCopyIsPerfect ==
    \A c \in Calls :
        ExactCopy(c) =>
            /\ pc[c] # "raised"
            /\ Scored(c) => FourScores(c) = {Hundred}

\* a copy of a recording whose two frames share a chroma column (all four
\* cells of the cost matrix are zero-cost) but differ in pitch has been scored
C1_Witness ==
    \E c \in Calls :
        /\ ExactCopy(c)
        /\ pc[c] = "returned"
        /\ Len(f0_teacher[c]) = 2
        /\ f0_teacher[c][1] # f0_teacher[c][2]
        /\ \A i \in 1..2 : \A j \in 1..2 : C[c][i][j] = 0
        /\ FourScores(c) = {Hundred}

\* C2: every score calculate_performance_score returns is a defined number
\* in [0, 100].
C2_ScoresInRange ==
    \A c \in Calls :
        Scored(c) => \A x \in FourScores(c) : ~IsNaN(x) /\ 0 <= x /\ x <= Hundred

\* C3: wp starts at (0, 0), ends at (m-1, n-1), and neither index decreases
\* from an entry to the next.
C3_PathForward ==
    \A c \in Calls :
        wp[c] # <<>> =>
            /\ wp[c][1] = <<0, 0>>
            /\ wp[c][Len(wp[c])] = <<Len(chroma_teacher[c]) - 1, Len(chroma_student[c]) - 1>>
            /\ \A k \in 1..(Len(wp[c]) - 1) :
                /\ wp[c][k][1] <= wp[c][k + 1][1]
                /\ wp[c][k][2] <= wp[c][k + 1][2]

\* both signals of call c were loaded with at least one frame, and the loop
\* over wp retained no pitch pair
NoRetainedPairs(c) ==
    /\ y_teacher[c] # <<>>
    /\ y_student[c] # <<>>
    /\ wp[c] # <<>>
    /\ pitch_diffs[c] = <<>>

\* C4: with no retained pitch pair calculate_performance_score raises nothing
\* and reports pitch_accuracy = 0 with mean_pitch_error_cents zero or absent.
C4_NoPairsGivesZero ==
    \A c \in Calls :
        NoRetainedPairs(c) =>
            /\ error[c] # "ValueError"
            /\ Scored(c) =>
                /\ scores[c].pitch_accuracy = 0
                /\ scores[c].details.mean_pitch_error_cents \in {0, NaN}

\* all harmonic distances of call c are equal to one another
AllChromaDiffsEqual(c) ==
    \A k \in 1..Len(chroma_diffs[c]) : chroma_diffs[c][k] = chroma_diffs[c][1]

\* C5 as stated: if all harmonic distances are equal, zero or positive,
\* harmonic_accuracy is 100.0.
C5_EqualDistancesGiveHundred ==
    \A c \in Calls :
        (Scored(c) /\ AllChromaDiffsEqual(c)) => scores[c].harmonic_accuracy = Hundred

\* C5 amended: in a returned report, if all harmonic distances are below 1e-6
\* harmonic_accuracy is 100.0, and if they are all equal at 1e-6 or more it
\* is 0.0.
C5_EqualDistancesAmended ==
    \A c \in Calls :
        (Scored(c) /\ AllChromaDiffsEqual(c)) =>
            scores[c].harmonic_accuracy =
                IF chroma_diffs[c][1] < PerfectTolerance THEN Hundred ELSE 0

\* a report over two or more path entries, all at the same positive distance
C5_Witness ==
    \E c \in Calls :
        /\ pc[c] = "returned"
        /\ Len(chroma_diffs[c]) >= 2
        /\ AllChromaDiffsEqual(c)
        /\ chroma_diffs[c][1] > 0
        /\ scores[c].harmonic_accuracy = 0

\* the score the claim gives a pair |cents_diff| apart: nothing from 100
\* cents on, 100 at no difference, 100 - |cents_diff| between
C6_PairScore(cents_diff) ==
    IF Abs(cents_diff) >= 100 * Scale THEN 0
    ELSE 100 * (Scale - Abs(cents_diff) \div 100)

\* C6: with at least one retained pair, pitch_accuracy is the arithmetic mean
\* of the pairs' scores clip(1 - |cents_diff|/100, 0, 1) * 100.
C6_PitchAccuracyIsMean ==
    \A c \in Calls :
        (Scored(c) /\ pitch_diffs[c] # <<>>) =>
            scores[c].pitch_accuracy =
                SumSeq([k \in 1..Len(pitch_diffs[c]) |-> C6_PairScore(pitch_diffs[c][k])])
                    \div Len(pitch_diffs[c])

\* a report over a pair a semitone or more apart and a pair less than a
\* semitone apart
C6_Witness ==
    \E c \in Calls :
        /\ pc[c] = "returned"
        /\ \E k \in 1..Len(pitch_diffs[c]) : Abs(pitch_diffs[c][k]) >= 100 * Scale
        /\ \E k \in 1..Len(pitch_diffs[c]) :
            /\ Abs(pitch_diffs[c][k]) > 0
            /\ Abs(pitch_diffs[c][k]) < 100 * Scale
        /\ scores[c].pitch_accuracy > 0
        /\ scores[c].pitch_accuracy < Hundred

DifferentInputs ==
    \A c1 \in Calls : \A c2 \in Calls \ {c1} :
        /\ teacher_audio_m4a[c1] # teacher_audio_m4a[c2]
        /\ student_audio_m4a[c1] # student_audio_m4a[c2]

\* C8: concurrent calls on different files do not interfere: each loads the
\* data converted from its own inputs, and none fails on a missing
\* temporary file.
C8_CallsDoNotInterfere ==
    DifferentInputs =>
        \A c \in Calls :
            /\ pc[c] \in {"load_student", "extract"} =>
                    y_teacher[c] = teacher_audio_m4a[c].frames
            /\ pc[c] = "extract" => y_student[c] = student_audio_m4a[c].frames
            /\ error[c] # "FileNotFoundError"

\* C9: when a call has exited, by return or by exception, no temporary WAV
\* file is left.
C9_TempFilesRemoved ==
    (\A c \in Calls : pc[c] \in {"idle", "returned", "raised"}) =>
        \A n \in TempNames : ~fs[n].exists

\* an input of call c decodes, with the other, and to a signal of no samples
DecodesToEmpty(c) ==
    /\ pc[c] # "idle"
    /\ teacher_audio_m4a[c].decodable
    /\ student_audio_m4a[c].decodable
    /\ teacher_audio_m4a[c].frames = <<>> \/ student_audio_m4a[c].frames = <<>>

\* C10: a zero-length signal ends the call with EmptySignalError before
\* feature extraction: the call is never past the extraction in any other way.
C10_EmptySignalRejected ==
    \A c \in Calls :
        DecodesToEmpty(c) =>
            \/ pc[c] \in {"convert_teacher", "convert_student", "load_teacher",
                          "load_student", "extract"}
            \/ pc[c] = "raised" /\ error[c] = "EmptySignalError"

\* dtw has returned a path to call c: the cost matrix had cells
Aligned(c) == ~NoCells(C[c])

\* C13: for chroma matrices of m teacher frames and n student frames, both
\* at least 1, the alignment path has at least max(m, n) entries and at most
\* m + n - 1.
C13_PathLength ==
    \A c \in Calls :
        LET m == Len(chroma_teacher[c])
            n == Len(chroma_student[c])
        IN (Aligned(c) /\ m >= 1 /\ n >= 1) =>
               /\ Len(wp[c]) >= Max2(m, n)
               /\ Len(wp[c]) <= m + n - 1

\* three frames against three, aligned by a path of four entries: longer
\* than the diagonal and shorter than m + n - 1
C13_Witness ==
    \E c \in Calls :
        /\ Aligned(c)
        /\ Len(chroma_teacher[c]) = 3
        /\ Len(chroma_student[c]) = 3
        /\ Len(wp[c]) = 4

\* call c is at line 188 with a chroma matrix of no columns
ZeroColumns(c) ==
    /\ pc[c] = "align"
    /\ (chroma_teacher[c] = <<>> \/ chroma_student[c] = <<>>)

DiagonalPath(c) ==
    /\ Len(wp[c]) >= 2
    /\ \A k \in 1..(Len(wp[c]) - 1) :
           /\ Abs(wp[c][k + 1][1] - wp[c][k][1]) = 1
           /\ Abs(wp[c][k + 1][2] - wp[c][k][2]) = 1

\* C15: when the alignment path is the ideal diagonal that DTW produces for
\* equal-length inputs, the timing metric computed outside the short-circuit
\* is perfect: details.timing_deviation is 0 and timing_accuracy is 100.
C15_DiagonalTimingPerfect ==
    \A c \in Calls :
        (Scored(c) /\ ~ShortCircuit(c) /\ DiagonalPath(c)) =>
            /\ scores[c].details.timing_deviation = 0
            /\ scores[c].timing_accuracy = Hundred

\* the report of call c holds 100.0 four times and 0.0 in every detail
AllPerfect(c) ==
    /\ FourScores(c) = {Hundred}
    /\ scores[c].details.mean_pitch_error_cents = 0
    /\ scores[c].details.max_pitch_error_cents = 0
    /\ scores[c].details.timing_deviation = 0
    /\ scores[c].details.mean_chroma_distance = 0

\* C16: calculate_performance_score returns all four scores as exactly 100.0
\* and all detail metrics as 0.0 if and only if every retained pitch
\* difference is below 1e-6 in absolute value and every harmonic distance is
\* below 1e-6.
C16_PerfectIffShortCircuit ==
    \A c \in Calls : Scored(c) => (AllPerfect(c) <=> ShortCircuit(c))

\* two different recordings that meet the test with a retained pitch
\* difference, and are reported as perfect
C16_Witness ==
    \E c \in Calls :
        /\ Scored(c)
        /\ ShortCircuit(c)
        /\ AllPerfect(c)
        /\ teacher_audio_m4a[c] # student_audio_m4a[c]
        /\ pitch_diffs[c] # <<>>

\* the loop of lines 218-244 has run in call c
PitchLoopDone(c) == Scored(c) \/ (pc[c] = "raised" /\ error[c] = "ValueError")

\* the pitch of the teacher frame and of the student frame of the k-th entry
\* of call c's path
TeacherPitch(c, k) == f0_teacher[c][wp[c][k][1] + 1]

StudentPitch(c, k) == f0_student[c][wp[c][k][2] + 1]

\* the positions in call c's path of the entries voiced on both sides, in
\* path order
VoicedEntries(c) ==
    LET BothVoiced(k) == ~IsNaN(TeacherPitch(c, k)) /\ ~IsNaN(StudentPitch(c, k))
    IN SelectSeq([k \in 1..Len(wp[c]) |-> k], BothVoiced)

\* C17: a path entry (i, j) contributes a pitch difference if and only if the
\* teacher pitch of frame i and the student pitch of frame j are both voiced;
\* the retained differences keep path order, and each is student cents minus
\* teacher cents.
C17_RetainedDifferences ==
    \A c \in Calls :
        PitchLoopDone(c) =>
            pitch_diffs[c] =
                [n \in 1..Len(VoicedEntries(c)) |->
                    hz_to_cents(StudentPitch(c, VoicedEntries(c)[n]))
                    - hz_to_cents(TeacherPitch(c, VoicedEntries(c)[n]))]

\* a path with an entry that is skipped and two that are retained with
\* different, non-zero differences
C17_Witness ==
    \E c \in Calls :
        /\ PitchLoopDone(c)
        /\ Len(pitch_diffs[c]) >= 2
        /\ Len(pitch_diffs[c]) < Len(wp[c])
        /\ pitch_diffs[c][1] # 0
        /\ pitch_diffs[c][2] # 0
        /\ pitch_diffs[c][1] # pitch_diffs[c][2]

RECURSIVE PathsTo(_, _)
\* every path from (0, 0) to (i, j) made of diagonal, horizontal and vertical
\* unit steps, each listed from (0, 0) on
PathsTo(i, j) ==
    IF i = 0 /\ j = 0 THEN { << <<0, 0>> >> }
    ELSE LET before == (IF i > 0 /\ j > 0 THEN PathsTo(i - 1, j - 1) ELSE {})
                       \cup (IF j > 0 THEN PathsTo(i, j - 1) ELSE {})
                       \cup (IF i > 0 THEN PathsTo(i - 1, j) ELSE {})
         IN { Append(p, <<i, j>>) : p \in before }

\* the summed cell costs of a path
PathCost(cost, p) == SumSeq([k \in 1..Len(p) |-> cost[p[k][1] + 1][p[k][2] + 1]])

\* a path listed from its last entry to its first
Reversed(p) == [k \in 1..Len(p) |-> p[Len(p) + 1 - k]]

\* C18: the alignment path is a minimum-cost path: it is a path from (0, 0)
\* to (m-1, n-1) of diagonal, horizontal and vertical unit steps, and its
\* summed cell costs are at most those of every other such path over the
\* same cost matrix.
C18_PathIsMinimumCost ==
    \A c \in Calls :
        Aligned(c) =>
            LET paths == PathsTo(Len(C[c]) - 1, Len(C[c][1]) - 1)
            IN /\ Reversed(wp[c]) \in paths
               /\ \A p \in paths : PathCost(C[c], wp[c]) <= PathCost(C[c], p)

\* three frames against three where the cheapest path costs something,
\* leaves the diagonal, and is strictly cheaper than the diagonal
C18_Witness ==
    \E c \in Calls :
        /\ Aligned(c)
        /\ Len(C[c]) = 3
        /\ Len(C[c][1]) = 3
        /\ Len(wp[c]) = 4
        /\ PathCost(C[c], wp[c]) > 0
        /\ PathCost(C[c], wp[c]) < PathCost(C[c], << <<0, 0>>, <<1, 1>>, <<2, 2>> >>)

\* the least summed cost of a path from (0, 0) to (i, j)
MinCostTo(cost, i, j) ==
    LET costs == { PathCost(cost, p) : p \in PathsTo(i, j) }
    IN CHOOSE x \in costs : \A y \in costs : x <= y

\* the predecessor of cell (i, j) that a search preferring the steps in the
\* given order picks: the first step, in that order, that stays inside the
\* matrix and leads from a cell of least cumulative cost
FirstCheapest(cost, i, j, order) ==
    LET inside == { k \in 1..Len(order) : i >= order[k][1] /\ j >= order[k][2] }
        from(k) == MinCostTo(cost, i - order[k][1], j - order[k][2])
        pick == CHOOSE k \in inside :
                    /\ \A l \in inside : from(k) <= from(l)
                    /\ \A l \in inside : l < k => from(l) > from(k)
    IN <<i - order[pick][1], j - order[pick][2]>>

\* every entry of call c's path is followed by the predecessor that the
\* order of preference picks
PicksInOrder(c, order) ==
    \A k \in 1..(Len(wp[c]) - 1) :
        wp[c][k + 1] = FirstCheapest(C[c], wp[c][k][1], wp[c][k][2], order)

\* C19: when several predecessors tie on cumulative cost, the aligner picks
\* the diagonal one first, then the vertical one (the teacher index changes
\* alone), then the horizontal one (the student index changes alone).
C19_DiagonalVerticalHorizontal ==
    \A c \in Calls :
        Aligned(c) => PicksInOrder(c, << <<1, 1>>, <<1, 0>>, <<0, 1>> >>)

\* C19 amended: on a tie the aligner picks the diagonal predecessor first,
\* then the horizontal one (the student index changes alone), then the
\* vertical one (the teacher index changes alone).
C19_DiagonalHorizontalVertical ==
    \A c \in Calls :
        Aligned(c) => PicksInOrder(c, << <<1, 1>>, <<0, 1>>, <<1, 0>> >>)

\* a path entry whose vertical and horizontal predecessors tie below the
\* diagonal one, followed by the horizontal predecessor
C19_Witness ==
    \E c \in Calls :
        /\ Aligned(c)
        /\ \E k \in 1..(Len(wp[c]) - 1) :
               LET i == wp[c][k][1]
                   j == wp[c][k][2]
               IN /\ i >= 1
                  /\ j >= 1
                  /\ MinCostTo(C[c], i - 1, j) = MinCostTo(C[c], i, j - 1)
                  /\ MinCostTo(C[c], i - 1, j) < MinCostTo(C[c], i - 1, j - 1)
                  /\ wp[c][k + 1] = <<i, j - 1>>

\* C20: every entry of the cost matrix returned by cosine_distance_matrix
\* lies in [0, 1], for every pair of feature matrices it is given.
C20_CostInUnitInterval ==
    \A c \in Calls :
        \A i \in 1..Len(C[c]) :
            \A j \in 1..Len(C[c][i]) :
                /\ C[c][i][j] >= 0
                /\ C[c][i][j] <= Scale

\* a cost matrix that holds both ends of the interval and a value inside it
C20_Witness ==
    \E c \in Calls :
        /\ Aligned(c)
        /\ \E i \in 1..Len(C[c]) : \E j \in 1..Len(C[c][i]) : C[c][i][j] = 0
        /\ \E i \in 1..Len(C[c]) : \E j \in 1..Len(C[c][i]) : C[c][i][j] = Scale
        /\ \E i \in 1..Len(C[c]) : \E j \in 1..Len(C[c][i]) :
               C[c][i][j] > 0 /\ C[c][i][j] < Scale

\* the run of the task for call c has ended, and its comparison had raised
ComparisonFailed(c) == task_pc[c] = "done" /\ pc[c] = "raised"

\* C11: when the comparison fails with any error while
\* process_practice_session_file is running it, the task returns status
\* 'error', the session's processing_status becomes 'failed', and no score
\* values of the failed call are written to processing_results or returned:
\* processing_results holds what it held before the run.
C11_ComparisonFailureIsTagged ==
    \A c \in Calls :
        ComparisonFailed(c) =>
            /\ task_return[c].status = "error"
            /\ task_return[c].results = <<>>
            /\ session.processing_status = "failed"
            /\ session.processing_results \in {<<>>, << OldResults >>}

\* a comparison that failed inside the scoring, for a session that had
\* results from an earlier run
C11_Witness ==
    \E c \in Calls :
        /\ ComparisonFailed(c)
        /\ error[c] = "ValueError"
        /\ session.processing_status = "failed"
        /\ session.processing_results = << OldResults >>

\* some entry of the matrix m is NaN
HoldsNaN(m) == \E i \in 1..Len(m) : \E k \in 1..Len(m[i]) : m[i][k] = NaN

\* C21: if a NaN is present in either chroma matrix or in the cost matrix,
\* compare_audio stops with a failure at the check placed right after that
\* matrix is built: DTW and scoring never run on it and no score report is
\* returned.
C21_NaNStopsAtTheCheck ==
    \A c \in Calls :
        /\ (HoldsNaN(chroma_teacher[c]) \/ HoldsNaN(chroma_student[c])) =>
               /\ pc[c] = "raised"
               /\ error[c] = "AssertionError"
               /\ C[c] = <<>>
               /\ wp[c] = <<>>
               /\ scores[c] = NoScores
        /\ HoldsNaN(C[c]) =>
               /\ pc[c] = "raised"
               /\ error[c] = "AssertionError"
               /\ wp[c] = <<>>
               /\ scores[c] = NoScores

\* a call stopped by the assertion on the student's chroma matrix, the
\* teacher's being free of NaN
C21_Witness ==
    \E c \in Calls :
        /\ HoldsNaN(chroma_student[c])
        /\ ~HoldsNaN(chroma_teacher[c])
        /\ chroma_teacher[c] # <<>>
        /\ pc[c] = "raised"
        /\ error[c] = "AssertionError"

\* ---------------------------------------------------------------------------
\* contacts: the requests between users and the contacts they make
\* ---------------------------------------------------------------------------

NumUsers == 3

Users == 1..NumUsers

\* The rows of ContactRequest the runs insert.
MaxRequests == 2

ContactRequestRow(from_user, to_user, status) ==
    [from_user |-> from_user, to_user |-> to_user, status |-> status]

Pks == 1..Len(contact_requests)

\* ContactRequest.objects.filter(from_user=.., to_user=.., status='pending').exists()
PendingExists(from_user, to_user) ==
    \E k \in Pks : contact_requests[k] = ContactRequestRow(from_user, to_user, "pending")

\* ContactRequest.clean of the instance in memory, against the tables as they are
ContactRequestClean(inst) ==
    /\ inst.from_user # inst.to_user
    /\ <<inst.from_user, inst.to_user>> \notin contacts
    /\ ~(inst.status = "pending" /\ PendingExists(inst.to_user, inst.from_user))

\* validate_unique of full_clean: unique_together of from_user and to_user,
\* the row of the instance itself left out
ContactRequestUnique(inst, pk) ==
    \A k \in Pks : k # pk =>
        <<contact_requests[k].from_user, contact_requests[k].to_user>>
            # <<inst.from_user, inst.to_user>>

\* full_clean, which ContactRequest.save runs before it writes
ContactRequestFullClean(inst, pk) ==
    ContactRequestClean(inst) /\ ContactRequestUnique(inst, pk)

\* the views that are inserting a row
Creating == {h \in Handlers : handlers[h].pc \in {"create_clean", "create_insert"}}

Serve(h, pc_, user, pk, inst) ==
    handlers' = [handlers EXCEPT ![h] = [pc |-> pc_, user |-> user, pk |-> pk, inst |-> inst]]

Respond(h) == handlers' = [handlers EXCEPT ![h] = IdleHandler]

At(h, pc_) == handlers[h].pc = pc_

other_vars == <<compare_vars, task_vars>>

\* create_contact_request up to the serializer: the user may not ask themselves,
\* nor a contact, nor twice while the first request is pending
CreateContactRequest(h) ==
    /\ At(h, "idle")
    /\ Len(contact_requests) + Cardinality(Creating) < MaxRequests
    /\ \E user \in Users, to_user \in Users :
        /\ to_user # user
        /\ <<user, to_user>> \notin contacts
        /\ ~PendingExists(user, to_user)
        /\ Serve(h, "create_clean", user, 0, ContactRequestRow(user, to_user, "pending"))
    /\ UNCHANGED <<contact_db, lesson_db, other_vars>>

\* serializer.save: ContactRequest.save runs full_clean, whose error answers 500
CreateClean(h) ==
    /\ At(h, "create_clean")
    /\ IF ContactRequestFullClean(handlers[h].inst, 0)
       THEN Serve(h, "create_insert", handlers[h].user, 0, handlers[h].inst)
       ELSE Respond(h)
    /\ UNCHANGED <<contact_db, lesson_db, other_vars>>

\* the INSERT, which the unique constraint of the table refuses for a second
\* row of the same two users
CreateInsert(h) ==
    /\ At(h, "create_insert")
    /\ contact_requests' =
        IF ContactRequestUnique(handlers[h].inst, 0)
        THEN Append(contact_requests, handlers[h].inst)
        ELSE contact_requests
    /\ Respond(h)
    /\ UNCHANGED <<contacts, lesson_db, other_vars>>

\* the view without its check of the status already decided
DecidableAlways(row) == TRUE

\* the views answer without a write when the request is accepted or rejected
Decidable(row) == row.status = "pending"

\* the view that lets the sender decide as well
MayDecideEitherParty(row, user) == user \in {row.from_user, row.to_user}

\* the views answer 403 to anyone but the recipient
MayDecide(row, user) == row.to_user = user

\* accept_contact_request up to the save: the row is read, the caller and the
\* status are checked, the instance in memory becomes accepted
AcceptGet(h) ==
    /\ At(h, "idle")
    /\ \E user \in Users, pk \in Pks :
        /\ MayDecide(contact_requests[pk], user)
        /\ Decidable(contact_requests[pk])
        /\ Serve(h, "accept_save", user, pk,
                 [contact_requests[pk] EXCEPT !.status = "accepted"])
    /\ UNCHANGED <<contact_db, lesson_db, other_vars>>

\* save(update_fields=['status', 'updated_at']): full_clean, then the UPDATE of
\* the status alone; the error of full_clean answers 500
AcceptSave(h) ==
    /\ At(h, "accept_save")
    /\ IF ContactRequestFullClean(handlers[h].inst, handlers[h].pk)
       THEN /\ contact_requests' =
                  [contact_requests EXCEPT ![handlers[h].pk].status = "accepted"]
            /\ Serve(h, "accept_contact_1", handlers[h].user, handlers[h].pk,
                     handlers[h].inst)
       ELSE /\ Respond(h)
            /\ UNCHANGED contact_requests
    /\ UNCHANGED <<contacts, lesson_db, other_vars>>

\* Contact.clean: nobody is their own contact, and no row exists the other way
ContactClean(user, contact) ==
    /\ user # contact
    /\ <<contact, user>> \notin contacts

\* "if not Contact.objects.filter(..).exists(): Contact.objects.create(..)",
\* the error of Contact.save kept by the except clause around it
ContactCreated(user, contact) ==
    IF <<user, contact>> \notin contacts /\ ContactClean(user, contact)
    THEN contacts \cup {<<user, contact>>}
    ELSE contacts

\* the contact from the sender to the recipient
AcceptContact1(h) ==
    /\ At(h, "accept_contact_1")
    /\ contacts' = ContactCreated(handlers[h].inst.from_user, handlers[h].inst.to_user)
    /\ Serve(h, "accept_contact_2", handlers[h].user, handlers[h].pk, handlers[h].inst)
    /\ UNCHANGED <<contact_requests, lesson_db, other_vars>>

\* the contact from the recipient to the sender, then the answer "accepted"
AcceptContact2(h) ==
    /\ At(h, "accept_contact_2")
    /\ contacts' = ContactCreated(handlers[h].inst.to_user, handlers[h].inst.from_user)
    /\ Respond(h)
    /\ UNCHANGED <<contact_requests, lesson_db, other_vars>>

\* reject_contact_request up to the save
RejectGet(h) ==
    /\ At(h, "idle")
    /\ \E user \in Users, pk \in Pks :
        /\ MayDecide(contact_requests[pk], user)
        /\ Decidable(contact_requests[pk])
        /\ Serve(h, "reject_save", user, pk,
                 [contact_requests[pk] EXCEPT !.status = "rejected"])
    /\ UNCHANGED <<contact_db, lesson_db, other_vars>>

\* save(update_fields=['status', 'updated_at']) of the rejected instance
RejectSave(h) ==
    /\ At(h, "reject_save")
    /\ contact_requests' =
        IF ContactRequestFullClean(handlers[h].inst, handlers[h].pk)
        THEN [contact_requests EXCEPT ![handlers[h].pk].status = "rejected"]
        ELSE contact_requests
    /\ Respond(h)
    /\ UNCHANGED <<contacts, lesson_db, other_vars>>

\* update and partial_update of ContactRequestViewSet up to the save: the row
\* is read among those of the user, the serializer sets to_user and leaves
\* from_user and status, which are read only
UpdateGet(h) ==
    /\ At(h, "idle")
    /\ \E user \in Users, pk \in Pks, to_user \in Users :
        /\ user \in {contact_requests[pk].from_user, contact_requests[pk].to_user}
        /\ Serve(h, "update_save", user, pk,
                 [contact_requests[pk] EXCEPT !.to_user = to_user])
    /\ UNCHANGED <<contact_db, lesson_db, other_vars>>

\* instance.save() of the serializer: full_clean, then the UPDATE of every
\* field from the instance in memory
UpdateSave(h) ==
    /\ At(h, "update_save")
    /\ contact_requests' =
        IF ContactRequestFullClean(handlers[h].inst, handlers[h].pk)
        THEN [contact_requests EXCEPT ![handlers[h].pk] = handlers[h].inst]
        ELSE contact_requests
    /\ Respond(h)
    /\ UNCHANGED <<contacts, lesson_db, other_vars>>

\* The server as deployed: the tables empty, no view and no task running.
InitWeb ==
    /\ pc = [c \in Calls |-> "idle"]
    /\ teacher_audio_m4a = [c \in Calls |-> Corrupt]
    /\ student_audio_m4a = [c \in Calls |-> Corrupt]
    /\ InitLocals
    /\ InitTaskIdle
    /\ InitWebIdle

ContactStep(h) ==
    \/ CreateContactRequest(h)
    \/ CreateClean(h)
    \/ CreateInsert(h)
    \/ AcceptGet(h)
    \/ AcceptSave(h)
    \/ AcceptContact1(h)
    \/ AcceptContact2(h)
    \/ RejectGet(h)
    \/ RejectSave(h)
    \/ UpdateGet(h)
    \/ UpdateSave(h)

\* one request served at a time
NextContacts == \E h \in {1} : ContactStep(h)

SpecContacts == InitWeb /\ [][NextContacts]_vars

\* the requests served together, their reads and writes interleaved
NextContactsConcurrent == \E h \in Handlers : ContactStep(h)

SpecContactsConcurrent == InitWeb /\ [][NextContactsConcurrent]_vars

\* an accept that answers: the view has passed its second creation of a contact
AcceptAnswers(h) == At(h, "accept_contact_2") /\ handlers'[h].pc = "idle"

Decided(row) == row.status \in {"accepted", "rejected"}

\* C23: a request whose status is 'accepted' or 'rejected' keeps that status
\* through every step of accept, reject, update and partial update, served
\* one after the other.
C23_StatusIsTerminal ==
    [][\A k \in Pks :
          Decided(contact_requests[k]) =>
              contact_requests'[k].status = contact_requests[k].status
      ]_vars

\* an update is about to write a new recipient on a request already decided
C23_Witness ==
    \E h \in Handlers :
        /\ At(h, "update_save")
        /\ Decided(contact_requests[handlers[h].pk])
        /\ handlers[h].inst # contact_requests[handlers[h].pk]
        /\ ContactRequestFullClean(handlers[h].inst, handlers[h].pk)

\* the view serving h is an accept or a reject past its checks
Deciding(h) ==
    handlers[h].pc \in {"accept_save", "accept_contact_1", "accept_contact_2", "reject_save"}

\* C24: a status leaves 'pending' only in a step of an accept or a reject
\* called by the user who is the request's to_user, contacts are made only by
\* such an accept, and an accept or reject called by anyone else changes
\* neither the requests nor the contacts.
C24_OnlyRecipientDecides ==
    [][/\ \A k \in Pks :
            (contact_requests[k].status = "pending"
                /\ contact_requests'[k].status # "pending") =>
                \E h \in Handlers :
                    /\ Deciding(h)
                    /\ handlers[h].pk = k
                    /\ handlers[h].user = contact_requests[k].to_user
       /\ contacts' # contacts =>
            \E h \in Handlers :
                /\ Deciding(h)
                /\ handlers'[h] # handlers[h]
                /\ handlers[h].user = contact_requests[handlers[h].pk].to_user
       /\ \A h \in Handlers :
            (Deciding(h) /\ handlers'[h] # handlers[h]
                /\ handlers[h].user # contact_requests[handlers[h].pk].to_user) =>
                UNCHANGED contact_db
      ]_vars

\* the recipient's accept has stored 'accepted' and goes on to the contacts
C24_Witness ==
    \E h \in Handlers :
        /\ At(h, "accept_contact_1")
        /\ handlers[h].user = contact_requests[handlers[h].pk].to_user
        /\ handlers[h].user # contact_requests[handlers[h].pk].from_user
        /\ contact_requests[handlers[h].pk].status = "accepted"

\* an accepted request has made the two users contacts, one way or the other
AreContacts(a, b) == <<a, b>> \in contacts \/ <<b, a>> \in contacts

\* C25: no step inserts a pending ContactRequest between two users that an
\* accepted request has made contacts, whichever of the two asks.
C25_NoRequestBetweenContacts ==
    [][Len(contact_requests') > Len(contact_requests) =>
          ~AreContacts(contact_requests'[Len(contact_requests')].from_user,
                       contact_requests'[Len(contact_requests')].to_user)
      ]_vars

\* C26: at no time are there a pending request from A to B and a pending
\* request from B to A, however the creations and updates interleave.
C26_NoOppositePending ==
    \A j \in Pks, k \in Pks :
        ~(/\ contact_requests[j].status = "pending"
          /\ contact_requests[k].status = "pending"
          /\ contact_requests[j].from_user = contact_requests[k].to_user
          /\ contact_requests[j].to_user = contact_requests[k].from_user)

\* ---------------------------------------------------------------------------
\* lessons: the requests to assign a lesson and the assignments
\* ---------------------------------------------------------------------------

NumLessons == 2

Lessons == 1..NumLessons

LessonRequestRow(lesson, requested_by, requested_to, status) ==
    [lesson |-> lesson, requested_by |-> requested_by,
     requested_to |-> requested_to, status |-> status]

LessonPks == 1..Len(assignment_requests)

\* LessonAssignmentRequest.objects.filter(lesson=.., requested_to=..,
\* status='pending').exists()
PendingLessonRequestExists(lesson, requested_to) ==
    \E k \in LessonPks :
        /\ assignment_requests[k].lesson = lesson
        /\ assignment_requests[k].requested_to = requested_to
        /\ assignment_requests[k].status = "pending"

\* LessonAssignmentRequest.clean of the instance in memory; the filter of
\* pending requests does not leave out the row of the instance itself
LessonRequestClean(inst) ==
    /\ inst.requested_by # inst.requested_to
    /\ <<inst.lesson, inst.requested_to>> \notin assignments
    /\ ~(inst.status = "pending"
            /\ PendingLessonRequestExists(inst.lesson, inst.requested_to))

\* unique_together of lesson and requested_to, the row of the instance left out
LessonRequestUnique(inst, pk) ==
    \A k \in LessonPks : k # pk =>
        <<assignment_requests[k].lesson, assignment_requests[k].requested_to>>
            # <<inst.lesson, inst.requested_to>>

\* full_clean, which LessonAssignmentRequest.save runs before it writes
LessonRequestFullClean(inst, pk) ==
    LessonRequestClean(inst) /\ LessonRequestUnique(inst, pk)

\* the views that are inserting a request
CreatingLessonRequest ==
    {h \in Handlers : handlers[h].pc \in {"lesson_create_clean", "lesson_create_insert"}}

\* create_lesson_request up to serializer.save: not to oneself, not a lesson
\* already assigned, not while a request is pending, and is_valid with the
\* validator of unique_together
CreateLessonRequest(h) ==
    /\ At(h, "idle")
    /\ Len(assignment_requests) + Cardinality(CreatingLessonRequest) < MaxRequests
    /\ \E user \in Users, lesson \in Lessons, requested_to \in Users :
        /\ requested_to # user
        /\ <<lesson, requested_to>> \notin assignments
        /\ ~PendingLessonRequestExists(lesson, requested_to)
        /\ LessonRequestUnique(LessonRequestRow(lesson, user, requested_to, "pending"), 0)
        /\ Serve(h, "lesson_create_clean", user, 0,
                 LessonRequestRow(lesson, user, requested_to, "pending"))
    /\ UNCHANGED <<contact_db, lesson_db, other_vars>>

\* serializer.save: LessonAssignmentRequest.save runs full_clean
LessonCreateClean(h) ==
    /\ At(h, "lesson_create_clean")
    /\ IF LessonRequestFullClean(handlers[h].inst, 0)
       THEN Serve(h, "lesson_create_insert", handlers[h].user, 0, handlers[h].inst)
       ELSE Respond(h)
    /\ UNCHANGED <<contact_db, lesson_db, other_vars>>

\* the INSERT, refused by the unique constraint for a second row of the same
\* lesson and user
LessonCreateInsert(h) ==
    /\ At(h, "lesson_create_insert")
    /\ assignment_requests' =
        IF LessonRequestUnique(handlers[h].inst, 0)
        THEN Append(assignment_requests, handlers[h].inst)
        ELSE assignment_requests
    /\ Respond(h)
    /\ UNCHANGED <<contact_db, assignments, other_vars>>

\* accept_lesson_request up to the save of accept(): the row is got by id,
\* requested_to and status 'pending', the instance in memory becomes accepted
AcceptLessonGet(h) ==
    /\ At(h, "idle")
    /\ \E user \in Users, pk \in LessonPks :
        /\ assignment_requests[pk].requested_to = user
        /\ assignment_requests[pk].status = "pending"
        /\ Serve(h, "lesson_accept_save", user, pk,
                 [assignment_requests[pk] EXCEPT !.status = "accepted"])
    /\ UNCHANGED <<contact_db, lesson_db, other_vars>>

\* self.save() of accept(): full_clean, whose error leaves the view, then the
\* UPDATE of every field from the instance in memory
LessonAcceptSave(h) ==
    /\ At(h, "lesson_accept_save")
    /\ IF LessonRequestFullClean(handlers[h].inst, handlers[h].pk)
       THEN /\ assignment_requests' =
                  [assignment_requests EXCEPT ![handlers[h].pk] = handlers[h].inst]
            /\ Serve(h, "lesson_accept_create", handlers[h].user, handlers[h].pk,
                     handlers[h].inst)
       ELSE /\ Respond(h)
            /\ UNCHANGED assignment_requests
    /\ UNCHANGED <<contact_db, assignments, other_vars>>

\* LessonAssignment.objects.create of accept(): the row is inserted, or the
\* unique constraint raises IntegrityError because the row is there
LessonAcceptCreate(h) ==
    /\ At(h, "lesson_accept_create")
    /\ assignments' = assignments \cup {<<handlers[h].inst.lesson, handlers[h].inst.requested_to>>}
    /\ Respond(h)
    /\ UNCHANGED <<contact_db, assignment_requests, other_vars>>

\* reject_lesson_request up to the save of reject()
RejectLessonGet(h) ==
    /\ At(h, "idle")
    /\ \E user \in Users, pk \in LessonPks :
        /\ assignment_requests[pk].requested_to = user
        /\ assignment_requests[pk].status = "pending"
        /\ Serve(h, "lesson_reject_save", user, pk,
                 [assignment_requests[pk] EXCEPT !.status = "rejected"])
    /\ UNCHANGED <<contact_db, lesson_db, other_vars>>

\* self.save() of reject()
LessonRejectSave(h) ==
    /\ At(h, "lesson_reject_save")
    /\ assignment_requests' =
        IF LessonRequestFullClean(handlers[h].inst, handlers[h].pk)
        THEN [assignment_requests EXCEPT ![handlers[h].pk] = handlers[h].inst]
        ELSE assignment_requests
    /\ Respond(h)
    /\ UNCHANGED <<contact_db, assignments, other_vars>>

\* LessonViewSet.assign up to serializer.save: the lesson must not be assigned
\* to the user yet
Assign(h) ==
    /\ At(h, "idle")
    /\ \E user \in Users, lesson \in Lessons, assigned_to \in Users :
        /\ <<lesson, assigned_to>> \notin assignments
        /\ Serve(h, "assign_save", user, 0, LessonRequestRow(lesson, user, assigned_to, ""))
    /\ UNCHANGED <<contact_db, lesson_db, other_vars>>

\* serializer.save of assign: the INSERT of the LessonAssignment, refused by
\* the unique constraint when the row is there
AssignSave(h) ==
    /\ At(h, "assign_save")
    /\ assignments' = assignments \cup {<<handlers[h].inst.lesson, handlers[h].inst.requested_to>>}
    /\ Respond(h)
    /\ UNCHANGED <<contact_db, assignment_requests, other_vars>>

\* update and partial_update of LessonAssignmentRequestViewSet up to the save:
\* the row is read among those the user sent or received, the serializer sets
\* lesson and requested_to (status and requested_by are read only) and its
\* validator of unique_together passes
UpdateLessonGet(h) ==
    /\ At(h, "idle")
    /\ \E user \in Users, pk \in LessonPks, lesson \in Lessons, requested_to \in Users :
        /\ user \in {assignment_requests[pk].requested_by, assignment_requests[pk].requested_to}
        /\ LessonRequestUnique(
               [assignment_requests[pk] EXCEPT !.lesson = lesson,
                                                !.requested_to = requested_to], pk)
        /\ Serve(h, "lesson_update_save", user, pk,
                 [assignment_requests[pk] EXCEPT !.lesson = lesson,
                                                  !.requested_to = requested_to])
    /\ UNCHANGED <<contact_db, lesson_db, other_vars>>

\* instance.save() of the serializer: full_clean, then the UPDATE of every field
LessonUpdateSave(h) ==
    /\ At(h, "lesson_update_save")
    /\ assignment_requests' =
        IF LessonRequestFullClean(handlers[h].inst, handlers[h].pk)
        THEN [assignment_requests EXCEPT ![handlers[h].pk] = handlers[h].inst]
        ELSE assignment_requests
    /\ Respond(h)
    /\ UNCHANGED <<contact_db, assignments, other_vars>>

\* the views on requests and assignments but the update of a request
AssignmentStep(h) ==
    \/ CreateLessonRequest(h)
    \/ LessonCreateClean(h)
    \/ LessonCreateInsert(h)
    \/ AcceptLessonGet(h)
    \/ LessonAcceptSave(h)
    \/ LessonAcceptCreate(h)
    \/ RejectLessonGet(h)
    \/ LessonRejectSave(h)
    \/ Assign(h)
    \/ AssignSave(h)

LessonStep(h) ==
    \/ AssignmentStep(h)
    \/ UpdateLessonGet(h)
    \/ LessonUpdateSave(h)

\* one request served at a time
NextLessons == \E h \in {1} : LessonStep(h)

SpecLessons == InitWeb /\ [][NextLessons]_vars

\* the requests served together, none of them an update of a request
NextAssignmentsConcurrent == \E h \in Handlers : AssignmentStep(h)

SpecAssignmentsConcurrent == InitWeb /\ [][NextAssignmentsConcurrent]_vars

\* the accept of request k is between its save and its creation of the assignment
Accepting(k) ==
    \E h \in Handlers : At(h, "lesson_accept_create") /\ handlers[h].pk = k

\* C27: for every stored request with status 'accepted' whose accept is not
\* still running, a LessonAssignment of the request's lesson to its
\* requested_to user exists.
C27_AcceptedHasAssignment ==
    \A k \in LessonPks :
        (assignment_requests[k].status = "accepted" /\ ~Accepting(k)) =>
            <<assignment_requests[k].lesson, assignment_requests[k].requested_to>>
                \in assignments

\* the row is completed with results stored, or failed
Settled(row) ==
    \/ row.processing_status = "completed" /\ row.processing_results # <<>>
    \/ row.processing_status = "failed"

\* the run has got its PracticeSession
Found(c) == practice_session[c] # NoRow

\* C28: a run of process_practice_session_file that has found its session
\* stores 'processing', and later returns with the session stored as
\* 'completed' with results or as 'failed'; a run that found its session has
\* never returned while the session is 'processing'.
C28_ProcessingThenSettled ==
    /\ [][\A c \in Calls : task_pc[c] = "mark_processing" =>
              session'.processing_status = "processing"]_vars
    /\ (\E c \in Calls : Found(c) /\ task_pc[c] # "done")
           ~> (\E c \in Calls : Found(c) /\ task_pc[c] = "done" /\ Settled(session))
    /\ [](\A c \in Calls : (task_pc[c] = "done" /\ Found(c)) => Settled(session))

\* a run that found its session has returned after its comparison raised
C28_Witness ==
    \E c \in Calls :
        /\ task_pc[c] = "done"
        /\ Found(c)
        /\ pc[c] = "raised"
        /\ session.processing_status = "failed"

\* ---------------------------------------------------------------------------
\* upload_audio: the view that stores a recording and starts the task
\* ---------------------------------------------------------------------------

\* the lesson's recording
LessonFile ==
    [decodable |-> TRUE,
     frames |-> << [f0 |-> 440, chroma |-> <<600, 800>>],
                   [f0 |-> 450, chroma |-> <<800, 600>>] >>]

\* what a student uploads: a recording, or a file that cannot be decoded
UploadedFiles ==
    { [decodable |-> TRUE, frames |-> << [f0 |-> 880, chroma |-> <<300, 400>>] >>],
      Corrupt }

\* the name the storage gives to the file of the n-th upload: never one it
\* gave before
UploadName(n) ==
    IF n = 1 THEN "practice_audio/a.m4a"
    ELSE IF n = 2 THEN "practice_audio/b.m4a"
    ELSE "practice_audio/c.m4a"

\* A session created without audio; the n-th upload will carry the n-th file
\* and its task will be run n; the lesson has no audio, one that is gone from
\* the storage, or one that is there.
InitUpload ==
    /\ pc = [c \in Calls |-> "idle"]
    /\ teacher_audio_m4a = [c \in Calls |-> LessonFile]
    /\ student_audio_m4a \in [Calls -> UploadedFiles]
    /\ InitLocals
    /\ session = Row("", "pending", <<>>)
    /\ task_pc = [c \in Calls |-> "idle"]
    /\ practice_audio_path = [c \in Calls |-> ""]
    /\ \E l \in LessonPaths : lesson_audio_path = [c \in Calls |-> l]
    /\ practice_session = [c \in Calls |-> NoRow]
    /\ task_return = [c \in Calls |-> NoReturn]
    /\ InitWebIdle

\* the uploads whose view has read the row and not yet saved it
Uploading == {h \in Handlers : handlers[h].pc = "upload_save"}

\* the runs of the task not yet started
NotStarted == {c \in Calls : practice_audio_path[c] = ""}

\* upload_audio, line 95: practice_session = self.get_object()
UploadGet(h) ==
    /\ At(h, "idle")
    /\ Cardinality(Uploading) < Cardinality(NotStarted)
    /\ Serve(h, "upload_save", 0, 0, session)
    /\ UNCHANGED <<contact_db, lesson_db, other_vars>>

\* upload_audio, lines 97-110: the file is set on the instance, save() writes
\* every field of the instance, and the task is queued with the two names
UploadSave(h) ==
    /\ At(h, "upload_save")
    /\ LET c == CHOOSE n \in NotStarted : \A m \in NotStarted : n <= m
       IN /\ session' = [handlers[h].inst EXCEPT !.audio = UploadName(c)]
          /\ practice_audio_path' = [practice_audio_path EXCEPT ![c] = UploadName(c)]
          /\ task_pc' = [task_pc EXCEPT ![c] = "get"]
    /\ Respond(h)
    /\ UNCHANGED <<lesson_audio_path, practice_session, task_return>>
    /\ UNCHANGED <<contact_db, lesson_db, compare_vars>>

NextUpload ==
    \/ \E h \in Handlers : UploadGet(h) \/ UploadSave(h)
    \/ NextTask

\* uploads to one session and the tasks they start, running together
SpecUpload == InitUpload /\ [][NextUpload]_vars

\* C29: in every state, a session whose processing_status is 'pending',
\* 'processing' or 'failed' has processing_results null, also after audio was
\* uploaded again to a session already processed.
C29_ResultsOnlyWhenCompleted ==
    session.processing_status \in {"pending", "processing", "failed"} =>
        session.processing_results = <<>>

\* a step of the task alone, no view saving in the same step
TaskStep == task_pc' # task_pc /\ handlers' = handlers

\* C30: no save of the task changes the audio stored in the session, so that
\* the audio another upload has stored while the task runs is still there.
C30_TaskKeepsAudio ==
    [][TaskStep => session'.audio = session.audio]_vars

====
